---- MODULE Spec2Model ----
(***************************************************************************)
(* The Gilded Tankard wheel of fortune (src/app.py): the session state of  *)
(* server() (rotation, last_result, ledger), the spin handler _spin_wheel, *)
(* and the Google Sheets ledger helpers.                                   *)
(*                                                                         *)
(* Numbers.  Python floats are modelled as exact rationals in fixed point: *)
(*   - random.random() returns k / RandDen, held as the numerator k;       *)
(*   - angles and rotations are held in units of 1/RandDen degree;         *)
(*   - percentages (wheel_pct) are held in units of 1/RandDen percent;     *)
(*   - money is held in units of 1/MoneyDen gp, MoneyDen = 10000*RandDen,  *)
(*     which makes every product and quotient of the earnings maths exact  *)
(*     for the whole-gp investments the model draws.                       *)
(* Floating-point rounding error is not modelled.                          *)
(***************************************************************************)
EXTENDS Integers, Sequences, FiniteSets, TLC

\* ---------------------------------------------------------------- bounds
\* random.random() is sampled at RandSamples[i] / RandDen.
RandDen == 10
RandSamples == {0, 1, 9}
Rand == {k \in RandSamples : k < RandDen}
\* Handler runs started per session, and runs suspended at the await.
MaxSpins == 2
MaxPending == 2
\* The two browser sessions a process may serve.
Sessions == {1, 2}

\* ------------------------------------------------------- game constants
\* LOSS_CHANCE = 0.10 is held in percent; MARGIN, the extra spins and the
\* pointer angle are the literals of _spin_wheel.
LOSS_CHANCE_PCT == 10
LOSS_PERCENTAGE == 0 - 10
MIN_PROFIT_PERCENT == 20
MAX_PROFIT_PERCENT == 200
MARGIN == 2
MIN_EXTRA_SPINS == 4
MAX_EXTRA_SPINS == 7
POINTER_ANGLE == 90
FULL_TURN == 360

LEDGER_HEADERS ==
  << "date", "investment", "wheel_pct", "flair_pct",
     "base_outcome", "flair_bonus_gp", "net_profit", "final_amount" >>

\* ------------------------------------------------------------ fixed point
MoneyDen == 10000 * RandDen
GP(n) == n * MoneyDen
Deg(n) == n * RandDen
Pct(n) == n * RandDen

\* ----------------------------------------------------- worksheet cells
\* A cell is blank, a number, or a text; one record shape for all three.
Blank == [kind |-> "blank", num |-> 0, text |-> ""]
Num(n) == [kind |-> "num", num |-> n, text |-> ""]
Text(s) == [kind |-> "text", num |-> 0, text |-> s]

\* The text cell holding datetime.now().strftime("%Y-%m-%d %H:%M:%S") at second t.
Stamp(t) == [kind |-> "text", num |-> t, text |-> "%Y-%m-%d %H:%M:%S"]

\* (cell or "").strip() is empty: a blank cell or a text of white space only.
IsBlankCell(c) == c.kind = "blank" \/ (c.kind = "text" /\ c.text \in {"", " "})

\* Python truthiness of a cell value: "", 0 and 0.0 are falsy.
Falsy(c) == c.kind = "blank" \/ (c.kind = "num" /\ c.num = 0)
                             \/ (c.kind = "text" /\ c.text = "")

RECURSIVE Reverse(_)
Reverse(s) == IF s = << >> THEN << >> ELSE Append(Reverse(Tail(s)), Head(s))

Max(a, b) == IF a >= b THEN a ELSE b

\* ------------------------------------------------ gspread worksheet calls
\* A worksheet is the sequence of its rows, a row the sequence of its cells.
\* Each call may raise: `fails` is the set of calls that raise this time.
WsCalls == {"row_values", "update", "get_all_records", "append_row"}

row_values(ws, n) == IF Len(ws) >= n THEN ws[n] ELSE << >>

\* ws.update("A1", [values]): overwrite the first Len(values) cells of row 1.
update_A1(ws, values) ==
  LET old == row_values(ws, 1)
      new == [i \in 1..Max(Len(old), Len(values)) |->
                IF i <= Len(values) THEN Text(values[i]) ELSE old[i]]
  IN IF Len(ws) = 0 THEN << new >> ELSE [ws EXCEPT ![1] = new]

\* ws.get_all_records(): one dict per row below row 1, keyed by row 1.
get_all_records(ws) ==
  IF Len(ws) < 2 THEN << >>
  ELSE [i \in 1..(Len(ws) - 1) |-> [keys |-> ws[1], vals |-> ws[i + 1]]]

\* dict.get(key, default) on such a dict (a later duplicate key wins).
Get(r, key, default) ==
  LET hits == {i \in 1..Len(r.keys) : r.keys[i] = Text(key)}
      last == CHOOSE i \in hits : \A j \in hits : j <= i
  IN IF hits = {} THEN default
     ELSE IF last <= Len(r.vals) THEN r.vals[last] ELSE Blank

\* ws.append_row(row): the row goes below the last row of the sheet.
append_row(ws, row) == Append(ws, row)

\* get_worksheet(): the worksheet handle, or None when gspread is missing, the
\* sheet id or the service account JSON is unset or malformed, or opening fails.
Connections == {"ok", "unavailable"}
get_worksheet(conn) == conn = "ok"

ensure_header_row(ws, fails) ==
  LET existing == IF "row_values" \in fails THEN << >> ELSE row_values(ws, 1)
  IN IF ~ \E i \in 1..Len(existing) : ~IsBlankCell(existing[i])
     THEN IF "update" \in fails THEN ws ELSE update_A1(ws, LEDGER_HEADERS)
     ELSE ws

\* `x or 0` and float(x): float raises on a text that is no number.
OrZero(c) == IF Falsy(c) THEN Num(0) ELSE c
FloatRaises(c) == c.kind = "text"
Float(c) == c.num

\* The seven numeric cells load_ledger_from_sheets converts, by state key.
LoadCells(r) ==
  [ investment     |-> OrZero(Get(r, "investment", Get(r, "Investment (gp)", Num(0)))),
    wheel_pct      |-> OrZero(Get(r, "wheel_pct", Get(r, "Fortune wheel", Num(0)))),
    flair_pct      |-> OrZero(Get(r, "flair_pct", Get(r, "Flair", Num(0)))),
    base_outcome   |-> OrZero(Get(r, "base_outcome", Num(0))),
    flair_bonus_gp |-> OrZero(Get(r, "flair_bonus_gp", Num(0))),
    net_profit     |-> OrZero(Get(r, "net_profit", Get(r, "Net profit (gp)", Num(0)))),
    final_amount   |-> OrZero(Get(r, "final_amount", Get(r, "Final amount (gp)", Num(0)))) ]

LoadState(r) ==
  LET c == LoadCells(r)
      d == Get(r, "date", Blank)
  IN [ date           |-> IF Falsy(d) THEN Get(r, "Date", Blank) ELSE d,
       investment     |-> Float(c.investment),
       wheel_pct      |-> Float(c.wheel_pct),
       flair_pct      |-> Float(c.flair_pct),
       base_outcome   |-> Float(c.base_outcome),
       flair_bonus_gp |-> Float(c.flair_bonus_gp),
       net_profit     |-> Float(c.net_profit),
       final_amount   |-> Float(c.final_amount) ]

Malformed(r) == \E k \in DOMAIN LoadCells(r) : FloatRaises(LoadCells(r)[k])

RECURSIVE LoadStates(_)
LoadStates(records) ==
  IF records = << >> THEN << >>
  ELSE IF Malformed(Head(records)) THEN LoadStates(Tail(records))
       ELSE << LoadState(Head(records)) >> \o LoadStates(Tail(records))

\* Mutant: the states are returned in sheet order, oldest first.
load_ledger_from_sheets_oldest_first(ws, conn, fails) ==
  IF ~get_worksheet(conn) THEN [states |-> << >>, ws |-> ws]
  ELSE LET ws1 == ensure_header_row(ws, fails)
       IN IF "get_all_records" \in fails
          THEN [states |-> << >>, ws |-> ws1]
          ELSE [states |-> LoadStates(get_all_records(ws1)), ws |-> ws1]

\* Returns the states (newest first) and the worksheet as the call leaves it.
load_ledger_from_sheets(ws, conn, fails) ==
  IF ~get_worksheet(conn) THEN [states |-> << >>, ws |-> ws]
  ELSE LET ws1 == ensure_header_row(ws, fails)
       IN IF "get_all_records" \in fails
          THEN [states |-> << >>, ws |-> ws1]
          ELSE [states |-> Reverse(LoadStates(get_all_records(ws1))), ws |-> ws1]

StateRow(state) ==
  << state.date, Num(state.investment), Num(state.wheel_pct), Num(state.flair_pct),
     Num(state.base_outcome), Num(state.flair_bonus_gp), Num(state.net_profit),
     Num(state.final_amount) >>

\* Mutant: a failing append_row is not caught.
append_state_to_sheets_uncaught(ws, conn, fails, state) ==
  IF ~get_worksheet(conn) THEN [ws |-> ws, appended |-> FALSE, raised |-> FALSE]
  ELSE LET ws1 == ensure_header_row(ws, fails)
       IN IF "append_row" \in fails
          THEN [ws |-> ws1, appended |-> FALSE, raised |-> TRUE]
          ELSE [ws |-> append_row(ws1, StateRow(state)), appended |-> TRUE,
                raised |-> FALSE]

\* Returns the worksheet as the call leaves it, whether the row was appended
\* (the "Appended 1 ledger entry" line is printed) and whether an exception
\* escapes to the caller (the code catches every exception of the append).
append_state_to_sheets(ws, conn, fails, state) ==
  IF ~get_worksheet(conn) THEN [ws |-> ws, appended |-> FALSE, raised |-> FALSE]
  ELSE LET ws1 == ensure_header_row(ws, fails)
       IN IF "append_row" \in fails
          THEN [ws |-> ws1, appended |-> FALSE, raised |-> FALSE]
          ELSE [ws |-> append_row(ws1, StateRow(state)), appended |-> TRUE,
                raised |-> FALSE]

\* ------------------------------------------------------------ the spin
\* x * (num / den) for a den that divides x (no rounding takes place).
Times(x, num, den) == (x \div den) * num

\* The random draw of _spin_wheel: r decides the category, v places the
\* result inside it. r and v are numerators over RandDen. The module global
\* LOSS_CHANCE is held in units of 1/360 (`chance`), so that the loss arc is a
\* whole number of degrees for every configuration the model considers.
LOSS_CHANCE == (FULL_TURN * LOSS_CHANCE_PCT) \div 100

\* Mutant: a draw equal to LOSS_CHANCE counts as a loss.
is_loss_inclusive(chance, r) == r * FULL_TURN <= chance * RandDen

is_loss(chance, r) == r * FULL_TURN < chance * RandDen
loss_degrees(chance) == (FULL_TURN * chance) \div FULL_TURN
profit_degrees(chance) == FULL_TURN - loss_degrees(chance)

result_pct(chance, r, v) ==
  IF is_loss(chance, r) THEN Pct(LOSS_PERCENTAGE)
  ELSE Pct(MIN_PROFIT_PERCENT) + v * (MAX_PROFIT_PERCENT - MIN_PROFIT_PERCENT)

\* Mutant: the loss angle is drawn over the whole loss arc, without the margin.
target_angle_no_margin(chance, r, v) ==
  IF is_loss(chance, r) THEN v * loss_degrees(chance)
  ELSE Deg(loss_degrees(chance)) + v * profit_degrees(chance)

\* Mutant: the profit angle is placed by the category draw r, not by v.
target_angle_from_r(chance, r, v) ==
  IF is_loss(chance, r) THEN Deg(MARGIN) + v * (loss_degrees(chance) - 2 * MARGIN)
  ELSE Deg(loss_degrees(chance)) + r * profit_degrees(chance)

target_angle(chance, r, v) ==
  IF is_loss(chance, r) THEN Deg(MARGIN) + v * (loss_degrees(chance) - 2 * MARGIN)
  ELSE Deg(loss_degrees(chance)) + v * profit_degrees(chance)

\* random.randint(4, 7)
ExtraSpins == MIN_EXTRA_SPINS..MAX_EXTRA_SPINS

\* Mutant: the rotation restarts from 0 at every spin.
final_rot_from_zero(rotation_now, k, angle) ==
  Deg(FULL_TURN * k) + (Deg(POINTER_ANGLE) - angle)

final_rot(rotation_now, k, angle) ==
  rotation_now + Deg(FULL_TURN * k) + (Deg(POINTER_ANGLE) - angle)

\* Mutant: an absent investment input counts as one gold piece.
investment_of_absent_as_one(input) == IF input = << >> THEN GP(1) ELSE GP(input[1])

\* float(input.investment() or 0.0): the input is << >> (absent) or << gp >>.
investment_of(input) == IF input = << >> \/ input[1] = 0 THEN GP(0) ELSE GP(input[1])

\* int(input.flair() or "0")
FlairChoices == {"5", "10", "15"}
flair_of(choice) ==
  CASE choice = "5" -> 5 [] choice = "10" -> 10 [] choice = "15" -> 15 [] OTHER -> 0

\* Mutant: the flair bonus is taken on the investment, not on the base outcome.
SettleFlairOnInvestment(investment, pct, flair_pct, date) ==
  LET base_profit == Times(investment, pct, 100 * RandDen)
      base_outcome == investment + base_profit
      flair_bonus_gp == Times(investment, flair_pct, 100)
      final_with_flair == base_outcome + flair_bonus_gp
      net_profit == final_with_flair - investment
  IN [ date           |-> date,
       investment     |-> investment,
       wheel_pct      |-> pct,
       flair_pct      |-> flair_pct,
       base_outcome   |-> base_outcome,
       flair_bonus_gp |-> flair_bonus_gp,
       net_profit     |-> net_profit,
       final_amount   |-> final_with_flair ]

\* The earnings maths and the state dict of one spin.
Settle(investment, pct, flair_pct, date) ==
  LET base_profit == Times(investment, pct, 100 * RandDen)
      base_outcome == investment + base_profit
      flair_bonus_gp == Times(base_outcome, flair_pct, 100)
      final_with_flair == base_outcome + flair_bonus_gp
      net_profit == final_with_flair - investment
  IN [ date           |-> date,
       investment     |-> investment,
       wheel_pct      |-> pct,
       flair_pct      |-> flair_pct,
       base_outcome   |-> base_outcome,
       flair_bonus_gp |-> flair_bonus_gp,
       net_profit     |-> net_profit,
       final_amount   |-> final_with_flair ]

\* ------------------------------------------------------------ the state
VARIABLES
  loss_chance,     \* the module global LOSS_CHANCE, in units of 1/360
  ws,              \* the ledger worksheet of the spreadsheet
  appends,         \* the "[Sheets] Appended 1 ledger entry" lines printed
  clock,           \* datetime.now(), in seconds
  started,         \* started[s]: server() has run for session s
  rotation,        \* rotation[s]: reactive.Value rotation
  last_result,     \* last_result[s]: << >> (None) or << state >>
  ledger,          \* ledger[s]: reactive.Value ledger, newest first
  initial_ledger,  \* initial_ledger[s]: what load_ledger_from_sheets returned
  pending,         \* pending[s]: the _spin_wheel runs suspended at the await
  sent,            \* sent[s]: the angles sent to the wheel, in order
  modals,          \* modals[s]: the number of results modals shown
  spun,            \* spun[s]: history of the draws made, one per run that drew
  settled          \* settled[s]: history of the state dicts, one per run completed

vars == << loss_chance, ws, appends, clock, started, rotation, last_result, ledger, initial_ledger,
           pending, sent, modals, spun, settled >>

\* What the worksheet may hold when the process starts: nothing, the header
\* row, a ledger written by an earlier session, a ledger kept under the
\* display headers, or a ledger with a hand-edited row.
HeaderRow == [i \in 1..Len(LEDGER_HEADERS) |-> Text(LEDGER_HEADERS[i])]
OldState == Settle(GP(50), Pct(MIN_PROFIT_PERCENT), 10, Stamp(0))
DisplayHeaderRow ==
  << Text("Date"), Text("Investment (gp)"), Text("Fortune wheel"), Text("Flair"),
     Text("Net profit (gp)"), Text("Final amount (gp)") >>
DisplayRow ==
  << Stamp(0), Num(GP(50)), Num(Pct(20)), Num(10), Num(GP(16)), Num(GP(66)) >>
InitialSheets ==
  { << >>,
    << HeaderRow >>,
    << HeaderRow, StateRow(OldState) >>,
    << DisplayHeaderRow, DisplayRow >>,
    << HeaderRow, StateRow(OldState), [StateRow(OldState) EXCEPT ![2] = Text("n/a")] >> }

\* The state after the process starts, the worksheet being one of `sheets`
\* and LOSS_CHANCE one of `chances`.
Start(sheets, chances) ==
  /\ loss_chance \in chances
  /\ ws \in sheets
  /\ appends = 0
  /\ clock = 1
  /\ started = [s \in Sessions |-> FALSE]
  /\ rotation = [s \in Sessions |-> 0]
  /\ last_result = [s \in Sessions |-> << >>]
  /\ ledger = [s \in Sessions |-> << >>]
  /\ initial_ledger = [s \in Sessions |-> << >>]
  /\ pending = [s \in Sessions |-> << >>]
  /\ sent = [s \in Sessions |-> << >>]
  /\ modals = [s \in Sessions |-> 0]
  /\ spun = [s \in Sessions |-> << >>]
  /\ settled = [s \in Sessions |-> << >>]

\* Mutant: the reactive values are module globals, one for all sessions.
set_value_shared(values, s, v) == [t \in Sessions |-> v]

\* reactive.Value.set(v) on a value created inside server(): each session
\* has its own rotation, last_result and ledger.
set_value(values, s, v) == [values EXCEPT ![s] = v]

\* server(): the session's reactive values and the load at session start.
\* `conns` is what get_worksheet() may find.
server(s, conns) ==
  /\ ~started[s]
  /\ \E conn \in conns, fails \in SUBSET (WsCalls \ {"append_row"}) :
       LET loaded == load_ledger_from_sheets(ws, conn, fails)
       IN /\ ws' = loaded.ws
          /\ initial_ledger' = [initial_ledger EXCEPT ![s] = loaded.states]
          /\ ledger' = set_value(ledger, s,
                          IF loaded.states # << >> THEN loaded.states ELSE << >>)
  /\ started' = [started EXCEPT ![s] = TRUE]
  /\ rotation' = set_value(rotation, s, 0)
  /\ last_result' = set_value(last_result, s, << >>)
  /\ UNCHANGED << loss_chance, appends, clock, pending, sent, modals, spun, settled >>

\* _spin_wheel up to its await on send_custom_message. `inputs` and `choices`
\* are what the two input widgets may hold, `draws` the triples << r, v, k >>
\* the random module may return to this run, `cap` the runs per session.
SpinBegin(s, inputs, choices, draws, cap) ==
  /\ started[s]
  /\ Len(spun[s]) < cap
  /\ Len(pending[s]) < MaxPending
  /\ \E input \in inputs, choice \in choices, d \in draws :
       LET r == d[1]
           v == d[2]
           k == d[3]
           investment == investment_of(input)
           flair_pct == flair_of(choice)
           pct == result_pct(loss_chance, r, v)
           angle == target_angle(loss_chance, r, v)
           rot == final_rot(rotation[s], k, angle)
       IN /\ rotation' = set_value(rotation, s, rot)
          /\ sent' = [sent EXCEPT ![s] = Append(@, rot)]
          /\ pending' = [pending EXCEPT ![s] =
                Append(@, [investment |-> investment, flair_pct |-> flair_pct,
                           result_pct |-> pct])]
          /\ spun' = [spun EXCEPT ![s] =
                Append(@, [input |-> input, choice |-> choice, r |-> r, v |-> v,
                           loss |-> is_loss(loss_chance, r), pct |-> pct, angle |-> angle,
                           k |-> k])]
  /\ UNCHANGED << loss_chance, ws, appends, clock, started, last_result, ledger,
                  initial_ledger, modals, settled >>

\* Mutant: the ledger is set to the new state alone, dropping what was there.
prepend_state_overwrite(state, current) == << state >>

\* Mutant: the new state goes to the end of the ledger.
prepend_state_last(state, current) == current \o << state >>

\* Mutant: the ledger keeps the new state and the newest record before it only.
prepend_state_keep_one(state, current) ==
  IF current = << >> THEN << state >> ELSE << state, Head(current) >>

\* ledger.set([state] + current)
prepend_state(state, current) == << state >> \o current

\* _spin_wheel from its await to its end, for the i-th suspended run. The
\* clock ticks once per record: datetime.now() at the resolution of a record.
SpinResume(s, i, conns) ==
  /\ i \in 1..Len(pending[s])
  /\ \E conn \in conns, fails \in SUBSET (WsCalls \ {"get_all_records"}) :
       LET f == pending[s][i]
           state == Settle(f.investment, f.result_pct, f.flair_pct, Stamp(clock))
           current == ledger[s]
           appended == append_state_to_sheets(ws, conn, fails, state)
       IN /\ ledger' = set_value(ledger, s, prepend_state(state, current))
          /\ last_result' = set_value(last_result, s, << state >>)
          /\ settled' = [settled EXCEPT ![s] = Append(@, state)]
          /\ ws' = appended.ws
          /\ appends' = IF appended.appended THEN appends + 1 ELSE appends
          /\ modals' = [modals EXCEPT ![s] = IF appended.raised THEN @ ELSE @ + 1]
  /\ clock' = clock + 1
  /\ pending' = [pending EXCEPT ![s] =
        [j \in 1..(Len(@) - 1) |-> IF j < i THEN @[j] ELSE @[j + 1]]]
  /\ UNCHANGED << loss_chance, started, rotation, initial_ledger, sent, spun >>

\* ------------------------------------------------------ specifications
\* The session every single-session specification follows.
Solo == {1}

\* Spec: one session with its ledger and the worksheet. The widgets hold an
\* absent, a negative or a positive investment; the random module returns a
\* loss or a profit.
InvestmentInputs == {<< >>, << 0 - 10 >>, << 100 >>}
LedgerDraws == {<< 0, 0, MIN_EXTRA_SPINS >>, << 9, 9, MAX_EXTRA_SPINS >>}

Init == Start(InitialSheets, {LOSS_CHANCE})

Next ==
  \E s \in Solo :
    \/ server(s, Connections)
    \/ SpinBegin(s, InvestmentInputs, {"5"}, LedgerDraws, MaxSpins)
    \/ \E i \in 1..MaxPending : SpinResume(s, i, Connections)

Spec == Init /\ [][Next]_vars

\* SpecKept: as Spec, on a worksheet that already holds at least a header row.
InitKept == Start(InitialSheets \ {<< >>}, {LOSS_CHANCE})

SpecKept == InitKept /\ [][Next]_vars

\* SpecWheel: one session without Sheets sync and with fixed widgets; every
\* draw of the random module.
WheelDraws == Rand \X Rand \X ExtraSpins

InitWheel == Start({<< >>}, {LOSS_CHANCE})

NextWheel ==
  \E s \in Solo :
    \/ server(s, {"unavailable"})
    \/ SpinBegin(s, {<< 100 >>}, {"5"}, WheelDraws, MaxSpins)
    \/ \E i \in 1..MaxPending : SpinResume(s, i, {"unavailable"})

SpecWheel == InitWheel /\ [][NextWheel]_vars

\* SpecConfig: as SpecWheel, the module global LOSS_CHANCE being edited to 0,
\* 1/360, 3/360, its shipped value 0.10 or 1 before the process starts.
LossChances == {0, 1, 3, LOSS_CHANCE, FULL_TURN}

InitConfig == Start({<< >>}, LossChances)

NextConfig ==
  \E s \in Solo :
    \/ server(s, {"unavailable"})
    \/ SpinBegin(s, {<< 100 >>}, {"5"}, WheelDraws, 1)
    \/ \E i \in 1..MaxPending : SpinResume(s, i, {"unavailable"})

SpecConfig == InitConfig /\ [][NextConfig]_vars

\* SpecSettle: one spin of one session without Sheets sync, over every
\* widget value and every draw.
AllInvestmentInputs == {<< >>, << 0 >>, << 0 - 10 >>, << 50 >>, << 100 >>}

NextSettle ==
  \E s \in Solo :
    \/ server(s, {"unavailable"})
    \/ SpinBegin(s, AllInvestmentInputs, FlairChoices, WheelDraws, 1)
    \/ \E i \in 1..MaxPending : SpinResume(s, i, {"unavailable"})

SpecSettle == InitWheel /\ [][NextSettle]_vars


\* SpecSessions: two sessions of one process on one worksheet, which starts
\* with the header row alone or with one row of an earlier session.
InitSessions == Start({<< HeaderRow >>, << HeaderRow, StateRow(OldState) >>}, {LOSS_CHANCE})

\* Session 1 clicks up to MaxSpins times, session 2 once.
SessionSpins(s) == IF s = 1 THEN MaxSpins ELSE 1

NextSessions ==
  \E s \in Sessions :
    \/ server(s, Connections)
    \/ SpinBegin(s, {<< 100 >>}, {"5"}, LedgerDraws, SessionSpins(s))
    \/ \E i \in 1..MaxPending : SpinResume(s, i, Connections)

SpecSessions == InitSessions /\ [][NextSessions]_vars

\* ---------------------------------------------------------------- claims
Last(seq) == seq[Len(seq)]

\* The rotation sent by the run before the i-th of session s (0 before the first).
RotationBefore(s, i) == IF i = 1 THEN 0 ELSE sent[s][i - 1]

\* C1: after every spin the rotation stored and sent equals (90 - dialAngle)
\* modulo 360, dialAngle being the angle drawn by that spin, whatever the
\* earlier spins were.
RotationLandsOnDraw ==
  \A s \in Sessions :
    (spun[s] # << >> /\ pending[s] = << >>) =>
      /\ Last(sent[s]) = rotation[s]
      /\ rotation[s] % Deg(FULL_TURN)
           = (Deg(POINTER_ANGLE) - Last(spun[s]).angle) % Deg(FULL_TURN)

\* C2: the rotation is never reset or wrapped and strictly increases: each
\* spin sends previous + 360*k + (90 - dialAngle) with k in 4..7 and dialAngle
\* in [2, 360), which is more than three full turns above the previous value.
RotationStrictlyIncreasing ==
  \A s \in Sessions :
    /\ Len(sent[s]) = Len(spun[s])
    /\ rotation[s] = (IF sent[s] = << >> THEN 0 ELSE Last(sent[s]))
    /\ \A i \in 1..Len(spun[s]) :
         LET d == spun[s][i]
         IN /\ d.k \in 4..7
            /\ Deg(2) <= d.angle /\ d.angle < Deg(360)
            /\ sent[s][i] = RotationBefore(s, i) + Deg(360 * d.k) + (Deg(90) - d.angle)
            /\ sent[s][i] > RotationBefore(s, i) + Deg(3 * 360)

\* C2 witness: a second spin has advanced the rotation of the first.
TwoSpinsSent == Len(sent[1]) = 2 /\ sent[1][2] > sent[1][1] /\ sent[1][1] > 0

\* C3: for investment I >= 0 the record of a spin has base_outcome = I + I*w/100,
\* flair_bonus_gp = base_outcome*b/100, final_amount = base_outcome +
\* flair_bonus_gp and net_profit = final_amount - I, w and b being the record's
\* wheel and flair percentages; (100, -10, 5) gives 90, 4.5, 94.5, -5.5 and
\* (50, 20, 10) gives 60, 6, 66, 16.
InputGP(input) == IF input = << >> THEN 0 ELSE input[1]

SettlementExact ==
  \A s \in Sessions :
    Len(settled[s]) = 1 =>
      LET I == InputGP(spun[s][1].input)
          st == settled[s][1]
      IN I >= 0 =>
           /\ st.investment = GP(I)
           /\ st.wheel_pct = spun[s][1].pct
           /\ st.flair_pct = flair_of(spun[s][1].choice)
           \* I*w/100 gp, in units of 1/MoneyDen gp, is I * wheel_pct * 100
           /\ st.base_outcome = GP(I) + I * st.wheel_pct * 100
           /\ st.flair_bonus_gp * 100 = st.base_outcome * st.flair_pct
           /\ st.final_amount = st.base_outcome + st.flair_bonus_gp
           /\ st.net_profit = st.final_amount - GP(I)
           /\ (I = 100 /\ st.wheel_pct = Pct(0 - 10) /\ st.flair_pct = 5) =>
                /\ st.base_outcome = GP(90)
                /\ 2 * st.flair_bonus_gp = GP(9)
                /\ 2 * st.final_amount = GP(189)
                /\ 2 * st.net_profit = GP(0 - 11)
           /\ (I = 50 /\ st.wheel_pct = Pct(20) /\ st.flair_pct = 10) =>
                /\ st.base_outcome = GP(60)
                /\ st.flair_bonus_gp = GP(6)
                /\ st.final_amount = GP(66)
                /\ st.net_profit = GP(16)

\* C3 witness: the spin settled is the first scenario of the claim.
SettledScenario ==
  /\ Len(settled[1]) = 1
  /\ settled[1][1].investment = GP(100)
  /\ settled[1][1].wheel_pct = Pct(0 - 10)
  /\ settled[1][1].flair_pct = 5
  /\ 2 * settled[1][1].net_profit = GP(0 - 11)

\* C4: every record of the session ledger, loaded or spun, and the last
\* result satisfy final_amount = base_outcome + flair_bonus_gp and
\* net_profit = final_amount - investment.
RecordConsistent(st) ==
  /\ st.final_amount = st.base_outcome + st.flair_bonus_gp
  /\ st.net_profit = st.final_amount - st.investment

LedgerRecordsConsistent ==
  \A s \in Sessions :
    /\ \A i \in 1..Len(ledger[s]) : RecordConsistent(ledger[s][i])
    /\ last_result[s] # << >> => RecordConsistent(last_result[s][1])

\* C5: a LOSS draw (wheel percentage -10) has its angle in [2, 34] and a
\* PROFIT draw in [36, 360), so the angle is below 36 exactly for a loss.
AngleMatchesCategory ==
  \A s \in Sessions : \A i \in 1..Len(spun[s]) :
    LET d == spun[s][i]
    IN /\ d.pct = Pct(0 - 10) => (Deg(2) <= d.angle /\ d.angle <= Deg(34))
       /\ d.pct # Pct(0 - 10) => (Deg(36) <= d.angle /\ d.angle < Deg(360))
       /\ (d.angle < Deg(36)) <=> (d.pct = Pct(0 - 10))

\* C5 witness: a loss drawn at the far end of its arc and a profit drawn at
\* the near end of its arc.
LossThenProfitDrawn ==
  /\ Len(spun[1]) = 2
  /\ spun[1][1].pct = Pct(0 - 10) /\ spun[1][1].v = 9
  /\ spun[1][2].pct # Pct(0 - 10) /\ spun[1][2].v = 0

\* C6: a draw is a LOSS exactly when r < 0.10; a LOSS records wheel percentage
\* -10 and a PROFIT records 20 + u*180, so every recorded wheel percentage is
\* -10 or within [20, 200].
CategoryAndPercentage ==
  \A s \in Sessions :
    /\ \A i \in 1..Len(spun[s]) :
         LET d == spun[s][i]
         IN /\ d.loss <=> (10 * d.r < RandDen)
            /\ d.loss => d.pct = Pct(0 - 10)
            /\ ~d.loss => d.pct = Pct(20) + 180 * d.v
    /\ \A i \in 1..Len(settled[s]) :
         LET w == settled[s][i].wheel_pct
         IN w = Pct(0 - 10) \/ (Pct(20) <= w /\ w <= Pct(200))

\* C6 witness: a draw of r just at or above the loss chance was settled as a
\* profit, and a draw below it as a loss.
BoundaryDrawSettled ==
  /\ Len(settled[1]) = 2 /\ pending[1] = << >>
  /\ spun[1][1].r = 1 /\ ~spun[1][1].loss /\ settled[1][1].wheel_pct >= Pct(20)
  /\ spun[1][2].r = 0 /\ spun[1][2].loss /\ settled[1][2].wheel_pct = Pct(0 - 10)

\* C7: for two PROFIT draws with u1 < u2, percentage1 < percentage2 and
\* dialAngle1 < dialAngle2.
ProfitMonotone ==
  \A s \in Sessions : \A i, j \in 1..Len(spun[s]) :
    LET a == spun[s][i]
        b == spun[s][j]
    IN (~a.loss /\ ~b.loss /\ a.v < b.v) => (a.pct < b.pct /\ a.angle < b.angle)

\* C7 witness: two profit draws with different u.
TwoProfitDraws ==
  /\ Len(spun[1]) = 2
  /\ ~spun[1][1].loss /\ ~spun[1][2].loss
  /\ spun[1][1].v < spun[1][2].v

\* C8 as stated: after N spins the first ledger record is that of the most
\* recent spin and the ledger has N records.
LedgerLengthIsSpins ==
  \A s \in Sessions :
    settled[s] # << >> =>
      /\ ledger[s][1] = Last(settled[s])
      /\ Len(ledger[s]) = Len(settled[s])

\* C8 amended: after N spins the first ledger record is that of the most
\* recent spin and the ledger has N records more than were loaded at the
\* start of the session.
LedgerLengthIsLoadedPlusSpins ==
  \A s \in Sessions :
    /\ Len(ledger[s]) = Len(initial_ledger[s]) + Len(settled[s])
    /\ settled[s] # << >> => ledger[s][1] = Last(settled[s])

\* C8 witness: two spins on top of a loaded ledger.
TwoSpinsOnLoadedLedger ==
  /\ Len(initial_ledger[1]) = 1
  /\ Len(settled[1]) = 2
  /\ Len(ledger[1]) = 3

\* C9: a spin with a negative investment is rejected: it makes no draw, moves
\* no rotation and settles no record.
NegativeInvestmentRejected ==
  \A s \in Sessions :
    /\ \A i \in 1..Len(spun[s]) : InputGP(spun[s][i].input) >= 0
    /\ \A i \in 1..Len(pending[s]) : pending[s][i].investment >= 0
    /\ \A i \in 1..Len(settled[s]) : settled[s][i].investment >= 0
    /\ last_result[s] # << >> => last_result[s][1].investment >= 0

\* C10: whether the append to the sheet succeeds, fails or is skipped, no
\* error leaves the handler: every completed spin has shown its modal, and its
\* record is the first of the ledger and the last result.
AppendFailureHarmless ==
  \A s \in Sessions :
    /\ modals[s] = Len(settled[s])
    /\ settled[s] # << >> =>
         /\ Len(ledger[s]) >= 1
         /\ ledger[s][1] = Last(settled[s])
         /\ last_result[s] = << Last(settled[s]) >>

\* C10 witness: a spin completed and showed its modal while its row never
\* reached the worksheet, which still holds the header row alone.
SpinShownButNotAppended ==
  /\ ws = << HeaderRow >>
  /\ Len(settled[1]) = 1
  /\ modals[1] = 1
  /\ ledger[1][1] = settled[1][1]

\* C11: with the runs of _spin_wheel interleaved at the await no update is
\* lost: every rotation sent is computed from the one sent just before it and
\* lies above it, every completed spin has exactly one record in the ledger,
\* and the records lie in the order of completion, newest first.
NoLostUpdate ==
  \A s \in Sessions :
    /\ \A i \in 2..Len(sent[s]) :
         /\ sent[s][i] > sent[s][i - 1]
         /\ sent[s][i] - sent[s][i - 1]
              = Deg(360 * spun[s][i].k) + (Deg(90) - spun[s][i].angle)
    /\ Len(ledger[s]) - Len(initial_ledger[s]) = Len(spun[s]) - Len(pending[s])
    /\ Len(settled[s]) = Len(spun[s]) - Len(pending[s])
    /\ \A j \in 1..Len(settled[s]) :
         ledger[s][Len(settled[s]) + 1 - j] = settled[s][j]

\* C11 witness: two runs were suspended together and the second completed
\* first.
SecondRunCompletedFirst ==
  /\ Len(spun[1]) = 2 /\ pending[1] = << >>
  /\ spun[1][1].pct # spun[1][2].pct
  /\ Len(settled[1]) = 2
  /\ settled[1][1].wheel_pct = spun[1][2].pct
  /\ settled[1][2].wheel_pct = spun[1][1].pct
  /\ sent[1][2] > sent[1][1]


\* C12: a spin of one session leaves the rotation, the ledger and the last
\* result of every other session unchanged.
SessionsIsolated ==
  [][\A s \in Sessions :
       (spun'[s] # spun[s] \/ settled'[s] # settled[s]) =>
         \A t \in Sessions \ {s} :
           /\ rotation'[t] = rotation[t]
           /\ ledger'[t] = ledger[t]
           /\ last_result'[t] = last_result[t]]_vars

\* C12 witness: both sessions have completed a spin, and each holds its own
\* rotation, ledger and last result.
BothSessionsSpun ==
  /\ Len(settled[1]) = 2 /\ Len(settled[2]) = 1
  /\ pending[1] = << >> /\ pending[2] = << >>
  /\ rotation[1] # rotation[2]
  /\ ledger[1] # ledger[2]
  /\ last_result[1] # last_result[2]


\* C13: load_ledger_from_sheets, which runs at the start of a session, is
\* purely a read: the worksheet is the same before and after it, whatever
\* the worksheet holds.
LoadLeavesSheetAlone ==
  [][\A s \in Sessions : (~started[s] /\ started'[s]) => ws' = ws]_vars


\* C14: a successful append_state_to_sheets is a pure append: the rows the
\* worksheet held stay as they were, and exactly one row is added below them,
\* holding date, investment, wheel_pct, flair_pct, base_outcome,
\* flair_bonus_gp, net_profit and final_amount in this order.
RowOfEight(st) ==
  << st.date, Num(st.investment), Num(st.wheel_pct), Num(st.flair_pct),
     Num(st.base_outcome), Num(st.flair_bonus_gp), Num(st.net_profit),
     Num(st.final_amount) >>

AppendIsPureAppend ==
  [][\A s \in Sessions :
       (settled'[s] # settled[s] /\ appends' = appends + 1) =>
         ws' = Append(ws, RowOfEight(Last(settled'[s])))]_vars


\* C15: a spin whose investment input is absent is processed, not refused, as
\* investment 0; for investment 0, whatever the wheel and flair percentages,
\* the record put on the ledger has base_outcome, flair_bonus_gp, final_amount
\* and net_profit all 0.
ZeroInvestmentZeroRecord ==
  \A s \in Sessions :
    (Len(settled[s]) = 1 /\ spun[s][1].input \in {<< >>, << 0 >>}) =>
      LET st == settled[s][1]
      IN /\ modals[s] = 1
         /\ ledger[s][1] = st
         /\ st.wheel_pct = spun[s][1].pct
         /\ st.flair_pct = flair_of(spun[s][1].choice)
         /\ st.investment = 0
         /\ st.base_outcome = 0
         /\ st.flair_bonus_gp = 0
         /\ st.final_amount = 0
         /\ st.net_profit = 0

\* C15 witness: a spin with no investment entered drew a profit with the
\* 15% flair, and its record is on the ledger.
AbsentInvestmentSettled ==
  /\ Len(settled[1]) = 1
  /\ spun[1][1].input = << >>
  /\ ~spun[1][1].loss
  /\ spun[1][1].v > 1
  /\ ledger[1][1].flair_pct = 15
  /\ ledger[1][1].wheel_pct > Pct(MIN_PROFIT_PERCENT)


\* C16: the session ledger is append-only and the last result is replaced at
\* every spin: when a spin completes, the last result is the first ledger
\* record and the rest of the ledger is the ledger as it was before; until the
\* first spin of a session completes the last result is unset, also when the
\* ledger was loaded with records at session start.
LedgerAppendOnly ==
  /\ [](\A s \in Sessions : settled[s] = << >> => last_result[s] = << >>)
  /\ [][\A s \in Sessions :
          IF settled'[s] # settled[s]
          THEN /\ last_result'[s] = << Last(settled'[s]) >>
               /\ last_result'[s] = << Head(ledger'[s]) >>
               /\ Tail(ledger'[s]) = ledger[s]
          ELSE started[s] =>
                 /\ ledger'[s] = ledger[s]
                 /\ last_result'[s] = last_result[s]]_vars

\* C16 witness: a session that loaded a record has completed a spin; the new
\* record is the last result and stands before the loaded one.
SpinOnLoadedLedger ==
  /\ Len(initial_ledger[1]) = 1
  /\ Len(settled[1]) = 1
  /\ last_result[1] = << ledger[1][1] >>
  /\ ledger[1][1] = settled[1][1]
  /\ Tail(ledger[1]) = initial_ledger[1]


\* C17: whatever LOSS_CHANCE is configured, no spin sends the dial to an angle
\* outside the arc of its category: a configuration whose loss arc is narrower
\* than twice the 2-degree margin is clamped or refused, so a loss always
\* lands within [0, 360 * LOSS_CHANCE).
LossLandsInLossArc ==
  \A s \in Sessions : \A i \in 1..Len(spun[s]) :
    spun[s][i].loss =>
      /\ 0 <= spun[s][i].angle
      /\ spun[s][i].angle < Deg(loss_degrees(loss_chance))


\* C18: ensure_header_row writes LEDGER_HEADERS only into a row 1 that is
\* entirely empty: while row 1 holds a non-blank cell, no call of it changes
\* row 1, whether or not its read of row 1 succeeds.
RowOneHoldsData ==
  /\ Len(ws) >= 1
  /\ \E i \in 1..Len(ws[1]) : ~IsBlankCell(ws[1][i])

NonEmptyHeaderRowKept ==
  [][RowOneHoldsData => (Len(ws') >= 1 /\ ws'[1] = ws[1])]_vars


\* C19: persisting and reloading is a round trip that keeps the order: when
\* the worksheet is the header row followed by the records of the k spins of
\* one session, each appended as it completed, a load that reaches the sheet
\* returns exactly these k records, field for field, in the newest-first order
\* of that session's ledger, and this is what a new session starts with.
SheetHoldsSpinsOf(s) ==
  /\ started[s]
  /\ initial_ledger[s] = << >>
  /\ ws = << HeaderRow >> \o [j \in 1..Len(settled[s]) |-> RowOfEight(settled[s][j])]

RoundTripKeepsOrder ==
  /\ [](\A s \in Sessions :
          SheetHoldsSpinsOf(s) =>
            \A conn \in Connections, fails \in SUBSET WsCalls :
              (get_worksheet(conn) /\ "get_all_records" \notin fails) =>
                load_ledger_from_sheets(ws, conn, fails).states = ledger[s])
  /\ [][\A s \in Sessions, t \in Sessions :
          (SheetHoldsSpinsOf(s) /\ ~started[t] /\ started'[t]) =>
            initial_ledger'[t] \in {<< >>, ledger[s]}]_vars

\* C19 witness: session 1 appended the records of two different spins to the
\* sheet that held the header row only, and session 2 started from them.
ReloadedTwoSpins ==
  /\ SheetHoldsSpinsOf(1)
  /\ Len(settled[1]) = 2
  /\ settled[1][1].wheel_pct # settled[1][2].wheel_pct
  /\ started[2]
  /\ initial_ledger[2] = ledger[1]
  /\ ledger[1] = << settled[1][2], settled[1][1] >>

====
